---- MODULE Spec2Model ----
(***************************************************************************)
(* Model of the varintrs codec (src/src/lib.rs): base-128 varints and      *)
(* LEB128 over fixed slices and over a Cursor used as byte sink/source.    *)
(*                                                                         *)
(* A 64-bit word (u64 or i64, the bits are the same) is the set of its set *)
(* bit positions, a subset of 0..63: TLC's integers are 32 bits wide, and  *)
(* every 64-bit operation of the code is a shift, a mask, a complement or  *)
(* a comparison with 0, -1 or 0x80.  A byte (u8) is an integer 0..255.     *)
(***************************************************************************)
EXTENDS Integers, Sequences, FiniteSets, TLC

VARIABLES buf, rdr, last, out, calls

vars == <<buf, rdr, last, out, calls>>

\* ---------------------------------------------------------------- bounds
\* Width of the free bit window of the input words.
WindowBits == 2
\* Number of encode calls on one reused buffer or cursor.
MaxCalls == 3
\* Number of bytes that may follow the 10th byte of a raw decoder input.
MaxTail == 1

\* ------------------------------------------------------------- constants
MAX_VARINT_LEN64 == 10
CONTINUATION_BIT == 128
\* Width of u64 / i64.
WORD_BITS == 64

\* ------------------------------------------------------- 64-bit word ops
AllBits == 0 .. (WORD_BITS - 1)

RECURSIVE Pow2(_)
Pow2(n) == IF n <= 0 THEN 1 ELSE 2 * Pow2(n - 1)

\* x << k on a 64-bit word (bits shifted past bit 63 are dropped).
Shl(w, k) == {j + k : j \in {i \in w : i + k < WORD_BITS}}

\* x >> k on a u64 (logical).
Shr(w, k) == {j - k : j \in {i \in w : i >= k}}

\* x >> k on an i64 (arithmetic: the sign bit fills from the top).
Sar(w, k) ==
    Shr(w, k) \cup (IF (WORD_BITS - 1) \in w THEN (WORD_BITS - k) .. (WORD_BITS - 1) ELSE {})

\* !x
Not(w) == AllBits \ w

\* x < 0 for an i64
IsNeg(w) == (WORD_BITS - 1) \in w

\* x as u8: the low 8 bits as a byte.
AsU8(w) ==
    LET b(i) == IF i \in w THEN Pow2(i) ELSE 0
    IN  b(0) + b(1) + b(2) + b(3) + b(4) + b(5) + b(6) + b(7)

\* u64::from(byte) / byte as u64 / i64::from(byte)
FromU8(byte) == {i \in 0 .. 7 : (byte \div Pow2(i)) % 2 = 1}

\* byte | 0x80 and byte & 0x80 != 0 on a u8
OrContinuation(byte) == IF byte >= CONTINUATION_BIT THEN byte ELSE byte + CONTINUATION_BIT
HasContinuation(byte) == byte >= CONTINUATION_BIT

\* byte as i8 (two's complement reinterpretation)
AsI8(byte) == IF byte >= 128 THEN byte - 256 ELSE byte

low_bits_of_byte(byte) == byte % CONTINUATION_BIT

low_bits_of_u64(val) == low_bits_of_byte(AsU8(val))

\* ------------------------------------------------------------- encoders
\* Each returns the buffer after the call and the returned count n.

\* put_vu64 with the loop test x > 0x80 in place of x >= 0x80.
RECURSIVE put_vu64_loop_gt(_, _, _)
put_vu64_loop_gt(b, x, i) ==
    IF (\E j \in x : j >= 8) \/ (7 \in x /\ \E j \in x : j < 7)
    THEN put_vu64_loop_gt([b EXCEPT ![i + 1] = OrContinuation(AsU8(x))], Shr(x, 7), i + 1)
    ELSE [buf |-> [b EXCEPT ![i + 1] = AsU8(x)], n |-> i + 1]

\* put_vu64 clearing the buffer before it writes.
put_vu64_clearing(b, x) ==
    LET RECURSIVE loop(_, _, _)
        loop(c, y, i) ==
            IF \E j \in y : j >= 7
            THEN loop([c EXCEPT ![i + 1] = OrContinuation(AsU8(y))], Shr(y, 7), i + 1)
            ELSE [buf |-> [c EXCEPT ![i + 1] = AsU8(y)], n |-> i + 1]
    IN  loop([j \in 1 .. Len(b) |-> 0], x, 0)

RECURSIVE put_vu64_loop(_, _, _)
put_vu64_loop(b, x, i) ==
    IF \E j \in x : j >= 7   \* x >= 0x80
    THEN put_vu64_loop([b EXCEPT ![i + 1] = OrContinuation(AsU8(x))], Shr(x, 7), i + 1)
    ELSE [buf |-> [b EXCEPT ![i + 1] = AsU8(x)], n |-> i + 1]

put_vu64(b, x) == put_vu64_loop(b, x, 0)

\* put_vi64 without the complement of negative values.
ZigZag_no_complement(x) == Shl(x, 1)

ZigZag(x) == IF IsNeg(x) THEN Not(Shl(x, 1)) ELSE Shl(x, 1)

put_vi64(b, x) == put_vu64(b, ZigZag(x))

RECURSIVE put_leb128_u64_loop(_, _, _)
put_leb128_u64_loop(b, x, i) ==
    IF x # {}   \* while x > 0
    THEN LET byte == low_bits_of_u64(x)
             x1 == Shr(x, 7)
             byte1 == IF x1 # {} THEN OrContinuation(byte) ELSE byte
         IN  put_leb128_u64_loop([b EXCEPT ![i + 1] = byte1], x1, i + 1)
    ELSE [buf |-> b, n |-> i]

put_leb128_u64(b, x) == put_leb128_u64_loop(b, x, 0)

RECURSIVE put_leb128_i64_loop(_, _, _)
put_leb128_i64_loop(b, x, i) ==
    LET byte == AsU8(x)
        x1 == Sar(x, 6)
        done == x1 = {} \/ x1 = AllBits   \* x == 0 || x == -1
    IN  IF done
        THEN [buf |-> [b EXCEPT ![i + 1] = low_bits_of_byte(byte)], n |-> i + 1]
        ELSE put_leb128_i64_loop([b EXCEPT ![i + 1] = OrContinuation(byte)], Sar(x1, 1), i + 1)

put_leb128_i64(b, x) == put_leb128_i64_loop(b, x, 0)

\* -------------------------------------------------------------- decoders
\* A byte source is a sequence of bytes src read from position pos (0-based);
\* read_u8 fails with UnexpectedEof when no byte is left (read_exact).
CanRead(src, pos) == pos < Len(src)

\* (value, n) of read_vu64, and the source position it leaves.
\* read_vu64 without the check of the tenth byte's payload.
RECURSIVE read_vu64_loop_unchecked(_, _, _, _, _)
read_vu64_loop_unchecked(src, pos, x, s, i) ==
    IF ~CanRead(src, pos)
    THEN [val |-> {}, n |-> 0, pos |-> pos]
    ELSE LET b == src[pos + 1]
         IN  IF i = MAX_VARINT_LEN64
             THEN [val |-> {}, n |-> -(i + 1), pos |-> pos + 1]
             ELSE IF b < 128
                  THEN [val |-> x \cup Shl(FromU8(b), s), n |-> i + 1, pos |-> pos + 1]
                  ELSE read_vu64_loop_unchecked(src, pos + 1, x \cup Shl(FromU8(b % 128), s),
                                                s + 7, i + 1)

\* read_vu64 handing back the bits accumulated so far when the source ends.
RECURSIVE read_vu64_loop_partial(_, _, _, _, _)
read_vu64_loop_partial(src, pos, x, s, i) ==
    IF ~CanRead(src, pos)
    THEN [val |-> x, n |-> 0, pos |-> pos]
    ELSE LET b == src[pos + 1]
         IN  IF i = MAX_VARINT_LEN64
             THEN [val |-> {}, n |-> -(i + 1), pos |-> pos + 1]
             ELSE IF b < 128
                  THEN IF i = MAX_VARINT_LEN64 - 1 /\ b > 1
                       THEN [val |-> {}, n |-> -(i + 1), pos |-> pos + 1]
                       ELSE [val |-> x \cup Shl(FromU8(b), s), n |-> i + 1, pos |-> pos + 1]
                  ELSE read_vu64_loop_partial(src, pos + 1, x \cup Shl(FromU8(b % 128), s),
                                              s + 7, i + 1)

RECURSIVE read_vu64_loop(_, _, _, _, _)
read_vu64_loop(src, pos, x, s, i) ==
    IF ~CanRead(src, pos)
    THEN [val |-> {}, n |-> 0, pos |-> pos]
    ELSE LET b == src[pos + 1]
         IN  IF i = MAX_VARINT_LEN64
             THEN [val |-> {}, n |-> -(i + 1), pos |-> pos + 1]
             ELSE IF b < 128
                  THEN IF i = MAX_VARINT_LEN64 - 1 /\ b > 1
                       THEN [val |-> {}, n |-> -(i + 1), pos |-> pos + 1]
                       ELSE [val |-> x \cup Shl(FromU8(b), s), n |-> i + 1, pos |-> pos + 1]
                  ELSE read_vu64_loop(src, pos + 1, x \cup Shl(FromU8(b % 128), s), s + 7, i + 1)

read_vu64(src, pos) == read_vu64_loop(src, pos, {}, 0, 0)

\* The zig-zag inverse of vi64 / read_vi64.
UnZigZag(ux) == IF 0 \in ux THEN Not(Shr(ux, 1)) ELSE Shr(ux, 1)

read_vi64(src, pos) ==
    LET r == read_vu64(src, pos)
    IN  [val |-> UnZigZag(r.val), n |-> r.n, pos |-> r.pos]

\* vu64(buf) and vi64(buf): the slice wrapped in a fresh Cursor.
vu64(slice) == read_vu64(slice, 0)

vi64(slice) ==
    LET r == vu64(slice)
    IN  [val |-> UnZigZag(r.val), n |-> r.n, pos |-> r.pos]

\* Result<i64> of read_leb128_i64: kind is "Ok", "UnexpectedEof" (from read_u8)
\* or "Interrupted" (the kind of the "Invalid leb128" error).
\* read_leb128_i64 without the sign extension of the last group.
RECURSIVE read_leb128_i64_loop_no_extend(_, _, _, _)
read_leb128_i64_loop_no_extend(src, pos, result, shift) ==
    IF ~CanRead(src, pos)
    THEN [kind |-> "UnexpectedEof", val |-> {}, pos |-> pos]
    ELSE LET byte == src[pos + 1]
             result1 == result \cup Shl(FromU8(byte % 128), shift)
         IN  IF shift >= 57
             THEN LET continuation_bit == HasContinuation(byte)
                      sign_and_unused_bit ==
                          AsI8((byte * 2) % 256) \div Pow2(WORD_BITS - shift)
                  IN  IF continuation_bit
                         \/ (sign_and_unused_bit # 0 /\ sign_and_unused_bit # -1)
                      THEN [kind |-> "Interrupted", val |-> {}, pos |-> pos + 1]
                      ELSE [kind |-> "Ok", val |-> result1, pos |-> pos + 1]
             ELSE IF ~HasContinuation(byte)
                  THEN [kind |-> "Ok", val |-> result1, pos |-> pos + 1]
                  ELSE read_leb128_i64_loop_no_extend(src, pos + 1, result1, shift + 7)

RECURSIVE read_leb128_i64_loop(_, _, _, _)
read_leb128_i64_loop(src, pos, result, shift) ==
    IF ~CanRead(src, pos)
    THEN [kind |-> "UnexpectedEof", val |-> {}, pos |-> pos]
    ELSE LET byte == src[pos + 1]
             result1 == result \cup Shl(FromU8(byte % 128), shift)
         IN  IF shift >= 57
             THEN LET continuation_bit == HasContinuation(byte)
                      \* ((byte << 1) as i8) >> (64 - shift)
                      sign_and_unused_bit ==
                          AsI8((byte * 2) % 256) \div Pow2(WORD_BITS - shift)
                  IN  IF continuation_bit
                         \/ (sign_and_unused_bit # 0 /\ sign_and_unused_bit # -1)
                      THEN [kind |-> "Interrupted", val |-> {}, pos |-> pos + 1]
                      ELSE [kind |-> "Ok", val |-> result1, pos |-> pos + 1]
             ELSE IF ~HasContinuation(byte)
                  THEN LET ashift == WORD_BITS - (shift + 7)
                       IN  [kind |-> "Ok", val |-> Sar(Shl(result1, ashift), ashift),
                            pos |-> pos + 1]
                  ELSE read_leb128_i64_loop(src, pos + 1, result1, shift + 7)

read_leb128_i64(src, pos) == read_leb128_i64_loop(src, pos, {}, 0)

\* read_leb128_u64 without the check of the tenth byte.
RECURSIVE read_leb128_u64_loop_unchecked(_, _, _, _)
read_leb128_u64_loop_unchecked(src, pos, result, shift) ==
    IF ~CanRead(src, pos)
    THEN [kind |-> "UnexpectedEof", val |-> {}, pos |-> pos]
    ELSE LET byte == src[pos + 1]
             result1 == result \cup Shl(FromU8(byte % 128), shift)
         IN  IF ~HasContinuation(byte)
             THEN [kind |-> "Ok", val |-> result1, pos |-> pos + 1]
             ELSE read_leb128_u64_loop_unchecked(src, pos + 1, result1, shift + 7)

RECURSIVE read_leb128_u64_loop(_, _, _, _)
read_leb128_u64_loop(src, pos, result, shift) ==
    IF ~CanRead(src, pos)
    THEN [kind |-> "UnexpectedEof", val |-> {}, pos |-> pos]
    ELSE LET byte == src[pos + 1]
             result1 == result \cup Shl(FromU8(byte % 128), shift)
         IN  IF shift >= 57 /\ (byte \div Pow2(WORD_BITS - shift)) # 0
             THEN [kind |-> "Interrupted", val |-> {}, pos |-> pos + 1]
             ELSE IF ~HasContinuation(byte)
                  THEN [kind |-> "Ok", val |-> result1, pos |-> pos + 1]
                  ELSE read_leb128_u64_loop(src, pos + 1, result1, shift + 7)

read_leb128_u64(src, pos) ==
    IF ~CanRead(src, pos)
    THEN [kind |-> "UnexpectedEof", val |-> {}, pos |-> pos]
    ELSE LET byte == src[pos + 1]
         IN  IF ~HasContinuation(byte)
             THEN [kind |-> "Ok", val |-> FromU8(byte), pos |-> pos + 1]
             ELSE read_leb128_u64_loop(src, pos + 1, FromU8(byte % 128), 7)

\* ------------------------------------------------------- the byte sink
\* write_all(&buf[..i]) on a Cursor over a Vec: the bytes overwrite the vector
\* from the position on, the vector grows when they pass its end.
CursorWrite(c, bytes) ==
    LET end == c.pos + Len(bytes)
        newLen == IF end > Len(c.data) THEN end ELSE Len(c.data)
    IN  [data |-> [j \in 1 .. newLen |->
                      IF j > c.pos /\ j <= end THEN bytes[j - c.pos] ELSE c.data[j]],
         pos |-> end]

\* let mut buf = [0u8; MAX_VARINT_LEN64]
ZeroBuf == [j \in 1 .. MAX_VARINT_LEN64 |-> 0]

\* &buf[..k]
Prefix(b, k) == SubSeq(b, 1, k)

\* ---------------------------------------------------------------- state
\* buf   the caller's slice handed to put_* and vu64 / vi64
\* rdr   the Cursor<Vec<u8>> used as sink (write_*) and source (read_*)
\* last  the last encode call: its name, its argument, its returned count
\* out   the last decode call since then: its name, its result, the position
\*       it started at, the length of its source, the bytes it consumed
\* calls the number of encode calls made
NoCall == [op |-> "none", x |-> {}, n |-> 0]
NoOut == [op |-> "none", kind |-> "none", val |-> {}, n |-> 0, at |-> 0, len |-> 0, read |-> 0]

PutOps == {"put_vu64", "put_vi64", "put_leb128_u64", "put_leb128_i64"}
WriteOps == {"write_vu64", "write_vi64", "write_leb128_u64", "write_leb128_i64"}

\* ----------------------------------------------- encode calls on a slice
Put(op, x, r) ==
    /\ buf' = r.buf
    /\ last' = [op |-> op, x |-> x, n |-> r.n]
    /\ out' = NoOut
    /\ calls' = calls + 1
    /\ UNCHANGED rdr

PutVu64(x) == Put("put_vu64", x, put_vu64(buf, x))

PutVi64(x) == Put("put_vi64", x, put_vi64(buf, x))

PutLeb128U64(x) == Put("put_leb128_u64", x, put_leb128_u64(buf, x))

PutLeb128I64(x) == Put("put_leb128_i64", x, put_leb128_i64(buf, x))

\* ------------------------------------------------ encode calls on a sink
\* Each encodes into a zeroed local scratch buffer and writes its prefix.
Write(op, x, r) ==
    /\ rdr' = CursorWrite(rdr, Prefix(r.buf, r.n))
    /\ last' = [op |-> op, x |-> x, n |-> r.n]
    /\ out' = NoOut
    /\ calls' = calls + 1
    /\ UNCHANGED buf

WriteVu64(x) == Write("write_vu64", x, put_vu64(ZeroBuf, x))

WriteVi64(x) == Write("write_vi64", x, put_vi64(ZeroBuf, x))

WriteLeb128U64(x) == Write("write_leb128_u64", x, put_leb128_u64(ZeroBuf, x))

WriteLeb128I64(x) == Write("write_leb128_i64", x, put_leb128_i64(ZeroBuf, x))

\* ----------------------------------------------- decode calls on a slice
\* The caller passes &buf[..k].
SliceDecode(op, k, r) ==
    /\ out' = [op |-> op, kind |-> "pair", val |-> r.val, n |-> r.n,
               at |-> 0, len |-> k, read |-> r.pos]
    /\ UNCHANGED <<buf, rdr, last, calls>>

Vu64(k) == SliceDecode("vu64", k, vu64(Prefix(buf, k)))

Vi64(k) == SliceDecode("vi64", k, vi64(Prefix(buf, k)))

\* ---------------------------------------------- decode calls on a source
VarintRead(op, r) ==
    /\ out' = [op |-> op, kind |-> "pair", val |-> r.val, n |-> r.n,
               at |-> rdr.pos, len |-> Len(rdr.data), read |-> r.pos - rdr.pos]
    /\ rdr' = [rdr EXCEPT !.pos = r.pos]
    /\ UNCHANGED <<buf, last, calls>>

ReadVu64 == VarintRead("read_vu64", read_vu64(rdr.data, rdr.pos))

ReadVi64 == VarintRead("read_vi64", read_vi64(rdr.data, rdr.pos))

Leb128Read(op, r) ==
    /\ out' = [op |-> op, kind |-> r.kind, val |-> r.val, n |-> 0,
               at |-> rdr.pos, len |-> Len(rdr.data), read |-> r.pos - rdr.pos]
    /\ rdr' = [rdr EXCEPT !.pos = r.pos]
    /\ UNCHANGED <<buf, last, calls>>

ReadLed128U64 == Leb128Read("read_led128_u64", read_leb128_u64(rdr.data, rdr.pos))

ReadLed128I64 == Leb128Read("read_led128_i64", read_leb128_i64(rdr.data, rdr.pos))

\* rdr.set_position(0), as the tests do between a write and a read.
Rewind ==
    /\ rdr.pos # 0
    /\ rdr' = [rdr EXCEPT !.pos = 0]
    /\ UNCHANGED <<buf, last, out, calls>>

\* A source over a strict prefix of the bytes written: Cursor::new(&data[..k]).
TakePrefix(k) ==
    /\ k < Len(rdr.data)
    /\ rdr' = [data |-> Prefix(rdr.data, k), pos |-> 0]
    /\ UNCHANGED <<buf, last, out, calls>>

\* ---------------------------------------------------------------- inputs
\* A word with a window of WindowBits free bits at position p, the bits
\* below it all l and the bits above it all h: 0, -1, every 2^k, 2^k - 1,
\* -2^k, i64::MIN, i64::MAX, u64::MAX and their neighbours.
WindowWord(P, p, l, h) ==
    {i + p : i \in P}
        \cup (IF l THEN 0 .. (p - 1) ELSE {})
        \cup (IF h THEN (p + WindowBits) .. (WORD_BITS - 1) ELSE {})

Inputs ==
    {WindowWord(P, p, l, h) :
        P \in SUBSET (0 .. (WindowBits - 1)), p \in 0 .. (WORD_BITS - WindowBits),
        l \in BOOLEAN, h \in BOOLEAN}

\* --------------------------------------- round trips on fresh buffers
\* One value is encoded into a zeroed buffer or an empty sink and decoded
\* again, from the whole encoding or from a prefix of it.
Init ==
    /\ buf = ZeroBuf
    /\ rdr = [data |-> <<>>, pos |-> 0]
    /\ last = NoCall
    /\ out = NoOut
    /\ calls = 0

Next ==
    \/ \E x \in Inputs :
        /\ calls = 0
        /\ \/ PutVu64(x)
           \/ PutVi64(x)
           \/ PutLeb128U64(x)
           \/ PutLeb128I64(x)
           \/ WriteVu64(x)
           \/ WriteVi64(x)
           \/ WriteLeb128U64(x)
           \/ WriteLeb128I64(x)
    \/ \E k \in 0 .. MAX_VARINT_LEN64 :
        /\ last.op \in PutOps
        /\ \/ Vu64(k)
           \/ Vi64(k)
    \/ /\ last.op \in WriteOps
       /\ \/ ReadVu64
          \/ ReadVi64
          \/ ReadLed128U64
          \/ ReadLed128I64
          \/ (out.op = "none" /\ Rewind)
          \/ \E k \in 0 .. MAX_VARINT_LEN64 : out.op = "none" /\ TakePrefix(k)

Spec == Init /\ [][Next]_vars

\* ------------------------------------------ reused buffer and cursor
\* The tests' loops: a zeroed 10-byte buffer and a cursor over ten zero
\* bytes, never cleared, take one value after another at offset 0.
FromInt(v) == {i \in 0 .. 30 : (v \div Pow2(i)) % 2 = 1}

\* 0, 1, 63, 64, 128, 300, -129, u64::MAX (-1 as i64) and i64::MIN
ReuseInputs ==
    {{}, FromInt(1), FromInt(63), FromInt(64), FromInt(128), FromInt(300),
     Not(FromInt(128)), AllBits, {WORD_BITS - 1}}

\* One loop of the tests drives one codec operation.
SameCodec(op) == last.op \in {"none", op}

InitReuse ==
    /\ buf = ZeroBuf
    /\ rdr = [data |-> ZeroBuf, pos |-> 0]
    /\ last = NoCall
    /\ out = NoOut
    /\ calls = 0

NextReuse ==
    \/ \E x \in ReuseInputs :
        /\ calls < MaxCalls
        /\ \/ (SameCodec("put_vu64") /\ PutVu64(x))
           \/ (SameCodec("put_vi64") /\ PutVi64(x))
           \/ (SameCodec("put_leb128_u64") /\ PutLeb128U64(x))
           \/ (SameCodec("put_leb128_i64") /\ PutLeb128I64(x))
           \/ (SameCodec("write_vu64") /\ rdr.pos = 0 /\ WriteVu64(x))
           \/ (SameCodec("write_vi64") /\ rdr.pos = 0 /\ WriteVi64(x))
           \/ (SameCodec("write_leb128_u64") /\ rdr.pos = 0 /\ WriteLeb128U64(x))
           \/ (SameCodec("write_leb128_i64") /\ rdr.pos = 0 /\ WriteLeb128I64(x))
    \/ /\ last.op \in PutOps
       /\ \/ Vu64(Len(buf))
          \/ Vi64(Len(buf))
    \/ /\ last.op \in WriteOps
       /\ rdr.pos = 0
       /\ \/ ReadVu64
          \/ ReadVi64
          \/ ReadLed128U64
          \/ ReadLed128I64
    \/ Rewind

SpecReuse == InitReuse /\ [][NextReuse]_vars

\* ------------------------------------------------ raw decoder inputs
\* Byte sequences whose first nine bytes carry the continuation bit, with
\* any tenth byte and up to MaxTail bytes after it.
ContinuedHead(p) == [j \in 1 .. (MAX_VARINT_LEN64 - 1) |-> CONTINUATION_BIT + p]

HeadPayloads == {0, 1, 127}

TailBytes == {0, 128, 255}

Tails == UNION {[1 .. n -> TailBytes] : n \in 0 .. MaxTail}

DecodeInputs ==
    {ContinuedHead(p) : p \in HeadPayloads}
        \cup {ContinuedHead(p) \o <<b>> \o t : p \in HeadPayloads, b \in 0 .. 255, t \in Tails}

InitDecode ==
    /\ buf \in DecodeInputs
    /\ rdr = [data |-> buf, pos |-> 0]
    /\ last = NoCall
    /\ out = NoOut
    /\ calls = 0

NextDecode ==
    \/ Vu64(Len(buf))
    \/ Vi64(Len(buf))
    \/ /\ rdr.pos = 0
       /\ \/ ReadVu64
          \/ ReadVi64
          \/ ReadLed128U64
          \/ ReadLed128I64

SpecDecode == InitDecode /\ [][NextDecode]_vars

\* ================================================================ claims
\* The decode in out read a slice that holds the whole encoding of last.
FullSliceDecode(enc, dec) == last.op = enc /\ out.op = dec /\ out.len >= last.n

\* The decode in out read, from offset 0, a source that holds exactly the
\* bytes the write in last produced.
ExactStreamDecode(enc, dec) ==
    last.op = enc /\ out.op = dec /\ out.at = 0 /\ out.len = last.n

\* The decode in out read a strict prefix of the encoding of last.
PrefixDecode(encs, decs) ==
    last.op \in encs /\ out.op \in decs /\ out.at = 0 /\ out.len < last.n

\* C1: put_vu64 writes 1..10 bytes, and vu64 on the buffer, like read_vu64 on
\* a source holding the written bytes, returns the value and that count.
C1_RoundTripVu64 ==
    /\ last.op \in {"put_vu64", "write_vu64"} => last.n \in 1 .. MAX_VARINT_LEN64
    /\ FullSliceDecode("put_vu64", "vu64") => out.val = last.x /\ out.n = last.n
    /\ ExactStreamDecode("write_vu64", "read_vu64") => out.val = last.x /\ out.n = last.n

C1_Witness ==
    /\ FullSliceDecode("put_vu64", "vu64")
    /\ (WORD_BITS - 1) \in last.x
    /\ last.n = MAX_VARINT_LEN64
    /\ out.n = MAX_VARINT_LEN64
    /\ out.val = last.x

\* The value of an i64 of small magnitude, and the u64 of a small number.
RECURSIVE SumBits(_)
SumBits(S) == IF S = {} THEN 0 ELSE LET i == CHOOSE j \in S : TRUE IN Pow2(i) + SumBits(S \ {i})

IsSmall(x) == (IF IsNeg(x) THEN Not(x) ELSE x) \subseteq 0 .. 28

ToInt(x) == IF IsNeg(x) THEN -SumBits(Not(x)) - 1 ELSE SumBits(x)

\* 2x for x >= 0 and -2x-1 for x < 0, bit by bit: bit 0 is the sign, bit i+1
\* is bit i of x flipped when x is negative.
ZigZagBits(x) ==
    (IF IsNeg(x) THEN {0} ELSE {})
        \cup {i + 1 : i \in {j \in 0 .. (WORD_BITS - 2) : (j \in x) # IsNeg(x)}}

\* The bytes the encode call in last produced, where the state still holds them.
Encoded ==
    IF last.op \in PutOps THEN Prefix(buf, last.n)
    ELSE IF last.op \in WriteOps /\ Len(rdr.data) = last.n THEN rdr.data
    ELSE <<>>

EncodingVu64(ux) == LET r == put_vu64(ZeroBuf, ux) IN Prefix(r.buf, r.n)

\* C2: put_vi64 encodes the zig-zag image of x (2x, or -2x-1 for x < 0) in at
\* most 10 bytes, and vi64 / read_vi64 on those bytes return x and that count.
C2_RoundTripVi64 ==
    /\ last.op \in {"put_vi64", "write_vi64"} =>
        /\ last.n \in 1 .. MAX_VARINT_LEN64
        /\ (last.op = "put_vi64" \/ Len(rdr.data) = last.n) =>
            /\ Encoded = EncodingVu64(ZigZagBits(last.x))
            /\ IsSmall(last.x) =>
                LET v == ToInt(last.x)
                IN  Encoded = EncodingVu64(FromInt(IF v >= 0 THEN 2 * v ELSE -2 * v - 1))
    /\ FullSliceDecode("put_vi64", "vi64") => out.val = last.x /\ out.n = last.n
    /\ ExactStreamDecode("write_vi64", "read_vi64") => out.val = last.x /\ out.n = last.n

C2_Witness ==
    /\ ExactStreamDecode("write_vi64", "read_vi64")
    /\ last.x = {WORD_BITS - 1}
    /\ last.n = MAX_VARINT_LEN64
    /\ out.val = last.x
    /\ out.n = MAX_VARINT_LEN64

\* C3: a value written with write_leb128_u64 to an empty sink is read back as
\* Ok(x) by read_led128_u64 from a source holding exactly the written bytes.
C3_RoundTripLeb128U64 ==
    ExactStreamDecode("write_leb128_u64", "read_led128_u64") =>
        out.kind = "Ok" /\ out.val = last.x

\* C4: write_leb128_i64 emits 1..10 bytes and read_led128_i64 from a source
\* holding exactly those bytes returns Ok(x).
C4_RoundTripLeb128I64 ==
    /\ last.op \in {"put_leb128_i64", "write_leb128_i64"} =>
        last.n \in 1 .. MAX_VARINT_LEN64
    /\ ExactStreamDecode("write_leb128_i64", "read_led128_i64") =>
        out.kind = "Ok" /\ out.val = last.x

C4_Witness ==
    /\ ExactStreamDecode("write_leb128_i64", "read_led128_i64")
    /\ last.x = {WORD_BITS - 1}
    /\ last.n = MAX_VARINT_LEN64
    /\ out.kind = "Ok"
    /\ out.val = last.x

\* C5: every put_* call returns at least 1, and the value 0 is encoded as the
\* single byte 0x00 at index 0.
C5_AtLeastOneByte ==
    last.op \in PutOps =>
        /\ last.n >= 1
        /\ last.x = {} => last.n = 1 /\ buf[1] = 0

\* C6: from a strict prefix of an encoding the varint decoders return (0, 0)
\* and the LEB128 decoders return the source's end-of-stream error.
C6_Truncation ==
    /\ PrefixDecode({"put_vu64", "put_vi64"}, {"vu64", "vi64"}) =>
        out.val = {} /\ out.n = 0
    /\ PrefixDecode({"write_vu64", "write_vi64"}, {"read_vu64", "read_vi64"}) =>
        out.val = {} /\ out.n = 0
    /\ PrefixDecode({"write_leb128_u64", "write_leb128_i64"},
                    {"read_led128_u64", "read_led128_i64"}) =>
        out.kind = "UnexpectedEof"

C6_Witness ==
    /\ PrefixDecode({"write_vu64"}, {"read_vu64"})
    /\ last.n = MAX_VARINT_LEN64
    /\ out.len = MAX_VARINT_LEN64 - 1
    /\ out.read = MAX_VARINT_LEN64 - 1
    /\ out.n = 0

\* The first nine bytes of d all carry the continuation bit.
NineContinued(d) ==
    Len(d) >= MAX_VARINT_LEN64 - 1
        /\ \A j \in 1 .. (MAX_VARINT_LEN64 - 1) : HasContinuation(d[j])

VarintDecodes == {"vu64", "vi64", "read_vu64", "read_vi64"}

\* The input of the varint decode in out overflows 64 bits: nine continued
\* bytes, then a tenth byte with a payload above 1, or eleven continued bytes.
OverflowInput ==
    /\ out.op \in VarintDecodes
    /\ out.at = 0
    /\ NineContinued(buf)
    /\ Len(buf) >= MAX_VARINT_LEN64
    /\ \/ low_bits_of_byte(buf[MAX_VARINT_LEN64]) > 1
       \/ /\ Len(buf) > MAX_VARINT_LEN64
          /\ \A j \in 1 .. (MAX_VARINT_LEN64 + 1) : HasContinuation(buf[j])

\* C7 as stated: on every overflowing input the varint decoders return (0, n)
\* with n < 0 and -n the number of bytes read.
C7_OverflowNegative ==
    OverflowInput => out.val = {} /\ out.n < 0 /\ -out.n = out.read

\* C7 as amended: the same, unless the input ends at a tenth byte that carries
\* the continuation bit; then the decoders return (0, 0), having read 10 bytes.
C7_OverflowOrTruncated ==
    OverflowInput =>
        /\ out.val = {}
        /\ IF Len(buf) = MAX_VARINT_LEN64 /\ HasContinuation(buf[MAX_VARINT_LEN64])
           THEN out.n = 0 /\ out.read = MAX_VARINT_LEN64
           ELSE /\ out.n < 0
                /\ -out.n = out.read
                /\ out.n = IF HasContinuation(buf[MAX_VARINT_LEN64])
                           THEN -(MAX_VARINT_LEN64 + 1) ELSE -MAX_VARINT_LEN64

C7_Witness ==
    /\ OverflowInput
    /\ out.op = "read_vi64"
    /\ Len(buf) > MAX_VARINT_LEN64
    /\ low_bits_of_byte(buf[MAX_VARINT_LEN64]) > 1
    /\ out.n = -(MAX_VARINT_LEN64 + 1)
    /\ out.read = MAX_VARINT_LEN64 + 1

\* The 64-bit word whose bit k is payload bit k % 7 of byte k / 7 of d.
Compose(d) == {k \in AllBits : (d[(k \div 7) + 1] \div Pow2(k % 7)) % 2 = 1}

\* C8: after nine continued bytes read_leb128_u64 returns Ok only for a tenth
\* byte 0x00 or 0x01 and read_leb128_i64 only for 0x00 or 0x7F, with the exact
\* value; every other tenth byte gives the Interrupted ("invalid") error, a
\* missing one the UnexpectedEof error, and no more than 10 bytes are read.
C8_Leb128Overflow ==
    LET d == rdr.data
        Validated(okBytes) ==
            /\ out.read <= MAX_VARINT_LEN64
            /\ out.kind = "Ok" =>
                Len(d) >= MAX_VARINT_LEN64 /\ d[MAX_VARINT_LEN64] \in okBytes
                    /\ out.val = Compose(d)
            /\ Len(d) >= MAX_VARINT_LEN64 /\ d[MAX_VARINT_LEN64] \notin okBytes =>
                out.kind = "Interrupted"
            /\ Len(d) < MAX_VARINT_LEN64 => out.kind = "UnexpectedEof"
    IN  NineContinued(d) /\ out.at = 0 =>
            /\ out.op = "read_led128_u64" => Validated({0, 1})
            /\ out.op = "read_led128_i64" => Validated({0, 127})

C8_Witness ==
    /\ NineContinued(rdr.data)
    /\ Len(rdr.data) > MAX_VARINT_LEN64
    /\ rdr.data[MAX_VARINT_LEN64] = 1
    /\ out.op = "read_led128_i64"
    /\ out.kind = "Interrupted"
    /\ out.read = MAX_VARINT_LEN64

\* What the put_* call named op returns on buffer b and value x.
PutResult(op, b, x) ==
    CASE op = "put_vu64" -> put_vu64(b, x)
      [] op = "put_vi64" -> put_vi64(b, x)
      [] op = "put_leb128_u64" -> put_leb128_u64(b, x)
      [] op = "put_leb128_i64" -> put_leb128_i64(b, x)

\* C9 as stated: after a put_* call the whole buffer is a function of the
\* value alone, so it is the buffer the same call leaves of a zeroed buffer.
C9_FullyOverwritten ==
    last.op \in PutOps => buf = PutResult(last.op, ZeroBuf, last.x).buf

\* C9 as amended: a put_* call writes exactly the first n bytes (n the count
\* it returns), those bytes and n are a function of the value alone, and the
\* bytes from index n on keep their prior contents.
C9_PrefixOnly ==
    [][(last'.op \in PutOps /\ calls' # calls) =>
        LET r == PutResult(last'.op, ZeroBuf, last'.x)
        IN  /\ last'.n = r.n
            /\ Prefix(buf', r.n) = Prefix(r.buf, r.n)
            /\ \A j \in (r.n + 1) .. Len(buf) : buf'[j] = buf[j]]_vars

C9_Witness ==
    /\ last.op = "put_vu64"
    /\ last.n = 1
    /\ buf[2] # 0
    /\ calls > 1

\* C10: on a buffer or cursor reused without clearing, decoding from offset 0
\* after each encode at offset 0 returns the value just encoded.
C10_ReusedRoundTrip ==
    LET Pair(enc, dec) == last.op = enc /\ out.op = dec /\ out.at = 0
    IN  /\ Pair("put_vu64", "vu64") => out.val = last.x
        /\ Pair("write_vu64", "read_vu64") => out.val = last.x
        /\ Pair("write_vi64", "read_vi64") => out.val = last.x
        /\ Pair("write_leb128_u64", "read_led128_u64") =>
            out.kind = "Ok" /\ out.val = last.x
        /\ Pair("write_leb128_i64", "read_led128_i64") =>
            out.kind = "Ok" /\ out.val = last.x

====
